---- MODULE Spec2Model ----
(***************************************************************************)
(* FOOOFGroup (fooof/group.py) and the log-Lorentzian model function       *)
(* (fooof/funcs.py).                                                       *)
(*                                                                         *)
(* A spectrum is identified by its kind: kind 0 cannot be fitted (the      *)
(* single-spectrum fit raises), kind s >= 1 fits to a result with s-1      *)
(* peaks.  The base class FOOOF (fit, get_results, save, load, _reset_dat) *)
(* is not part of the sources at hand; its effects follow the design       *)
(* document.                                                               *)
(***************************************************************************)
EXTENDS Integers, Sequences, FiniteSets

VARIABLES
    group_results,  \* self.group_results: list of FOOOFResult
    freqs,          \* self.freqs      (<<>> is None)
    freq_range,     \* self.freq_range (<<>> is None)
    psd,            \* self.psd: the spectrum bound to the fitter (NoPsd is None)
    fit_res,        \* fit outputs of the bound spectrum (<<>>: none, else <<result>>)
    sink,           \* lines written through f_obj by the running / last fit_group
    f_obj,          \* state of fit_group's file object: "none", "open", "closed"
    pc,             \* position of the running method
    args,           \* arguments of the running / last fit_group call
    i,              \* index (1-based) of the spectrum the loop of fit_group is at
    file,           \* lines of the file load_group_results reads
    pos,            \* index (1-based) of the next line load_group_results reads
    calls,          \* base-class methods called by the running / last method, in order
    raised,         \* exception that left the running / last method ("none": none)
    dropped,        \* number of results the running / last method discarded on entry
    out,            \* what the last get_all_data call returned or raised
    f_in,           \* arguments of loglorentzian_function
    f_out           \* its outcome

vars == <<group_results, freqs, freq_range, psd, fit_res, sink, f_obj, pc, args, i,
          file, pos, calls, raised, dropped, out, f_in, f_out>>

groupVars == <<group_results, freqs, freq_range, psd, fit_res, sink, f_obj, pc, args, i,
               file, pos, calls, raised, dropped, out>>

funcVars == <<f_in, f_out>>

-----------------------------------------------------------------------------
(* Bounds *)

MaxBatch == 2    \* most spectra in one batch
MaxPeaks == 1    \* most peaks of one spectrum
MaxLines == 3    \* most lines in a file that is loaded
MaxX == 2        \* most points of an x axis given to a model function
XRange == 1      \* x values are drawn from -XRange .. XRange
PRange == 1      \* parameters a, b are drawn from -PRange .. PRange
CMax == 2        \* exponent c is drawn from 0 .. CMax

-----------------------------------------------------------------------------
(* Data model *)

NoPsd == 0 - 1

BadLine == <<>>

Kinds == 0 .. (MaxPeaks + 1)

SeqsUpTo(S, n) == UNION {[1 .. k -> S] : k \in 0 .. n}

\* The frequency axes and ranges a batch is fitted with: an axis fitted over
\* its whole extent (freq_range None) and another cut to a range.
FreqArgs == {<<<<1, 2, 3, 4>>, <<>>>>, <<<<2, 4, 6>>, <<2, 4>>>>}

NoArgs == [psds |-> <<>>, freqs |-> <<>>, freq_range |-> <<>>, save_dat |-> FALSE]

ArgSet ==
    {[psds |-> ps, freqs |-> fa[1], freq_range |-> fa[2], save_dat |-> sv] :
        ps \in SeqsUpTo(Kinds, MaxBatch), fa \in FreqArgs, sv \in BOOLEAN}

\* The lines of a file that is loaded: a broken line (0), the record of a
\* spectrum without peaks and the record of a spectrum with the most peaks.
LineKinds == {0, 1, MaxPeaks + 1}

Files == SeqsUpTo(LineKinds, MaxLines)

NoInd == 0 - 1

\* The fields and columns that are asked for: those of lines 253-256.
Queries == {<<"background_params", 1>>, <<"oscillations_params", 0>>,
            <<"oscillations_params", NoInd>>, <<"r2", NoInd>>, <<"error", NoInd>>}

NoOut == [name |-> "none", ind |-> NoInd, exc |-> "none", val |-> <<>>]

Min(a, b) == IF a < b THEN a ELSE b

\* Whether the single-spectrum fit converges on a spectrum of kind s.
Fits(s) == s # 0

\* The peaks of a spectrum of kind s: s-1 rows (center, amplitude, width),
\* in ascending order of center frequency.
PeaksOf(s) == [j \in 1 .. (s - 1) |-> <<10 * j + s, j, 1>>]

\* The FOOOFResult of a spectrum of kind s.
FitResult(s) ==
    [background_params |-> <<10 + s, 20 + s>>,
     oscillations_params |-> PeaksOf(s),
     r2 |-> 90 + s,
     error |-> s]

\* get_results(): the result held by the fitter.
get_results == fit_res[1]

\* The frequency axis the fit keeps: the given axis cut to the given range.
TrimFreqs(fs, rng) ==
    IF rng = <<>> THEN fs
    ELSE SelectSeq(fs, LAMBDA f : rng[1] <= f /\ f <= rng[2])

\* The frequency range the fit keeps: the given one, or the extent of the axis.
HeldRange(fs, rng) == IF rng = <<>> THEN <<fs[1], fs[Len(fs)]>> ELSE rng

\* One line of the jsonlines file: the result, serialised.
Serialize(res) ==
    <<"bg", res.background_params, "osc", res.oscillations_params,
      "r2", res.r2, "error", res.error>>

\* The line a file holds for a spectrum kind: kind 0 is a line that is not
\* valid JSON (cut short or corrupt).
LineOf(s) == IF s = 0 THEN BadLine ELSE Serialize(FitResult(s))

\* Whether json.loads accepts a line.
Parses(line) == line # BadLine

\* The result that load() rebuilds from a line.
Parse(line) ==
    [background_params |-> line[2],
     oscillations_params |-> line[4],
     r2 |-> line[6],
     error |-> line[8]]

FileLines(f) == [j \in 1 .. Len(f) |-> LineOf(f[j])]

-----------------------------------------------------------------------------
(* State after construction *)

GroupInit ==
    /\ group_results = <<>>
    /\ freqs = <<>>
    /\ freq_range = <<>>
    /\ psd = NoPsd
    /\ fit_res = <<>>
    /\ sink = <<>>
    /\ f_obj = "none"
    /\ pc = "constructed"
    /\ args = NoArgs
    /\ i = 0
    /\ file = <<>>
    /\ pos = 0
    /\ calls = <<>>
    /\ raised = "none"
    /\ dropped = 0
    /\ out = NoOut

NoFuncIn == [x |-> <<>>, a |-> 1, b |-> 1, c |-> 1]

NoFuncOut == [applied |-> FALSE, raised |-> "none", y |-> <<>>]

Init ==
    /\ GroupInit
    /\ f_in = NoFuncIn
    /\ f_out = NoFuncOut

\* Positions at which no method of the object is running.
Rest == {"constructed", "fg_done", "fg_raised", "ld_done"}

-----------------------------------------------------------------------------
(* Base class FOOOF *)

\* fit(freqs, psd, freq_range) on a spectrum that converges: the data are bound
\* to the fitter and the fit outputs are those of the spectrum.
FitConverges(s) ==
    /\ freqs' = TrimFreqs(args.freqs, args.freq_range)
    /\ freq_range' = HeldRange(args.freqs, args.freq_range)
    /\ psd' = s
    /\ fit_res' = <<FitResult(s)>>

\* fit(freqs, psd, freq_range) on a spectrum that does not: either the input
\* is rejected before anything is bound, or the data are bound, the outputs of
\* the previous fit are discarded and the solver fails.
FitFails(s) ==
    \/ UNCHANGED <<freqs, freq_range, psd, fit_res>>
    \/ /\ freqs' = TrimFreqs(args.freqs, args.freq_range)
       /\ freq_range' = HeldRange(args.freqs, args.freq_range)
       /\ psd' = s
       /\ fit_res' = <<>>

\* _reset_dat(False): clears the bound spectrum and the fit outputs, keeps the
\* frequency information.
reset_dat_keep_freqs ==
    /\ psd' = NoPsd
    /\ fit_res' = <<>>
    /\ UNCHANGED <<freqs, freq_range>>

-----------------------------------------------------------------------------
(* FOOOFGroup.fit_group *)

\* A fit_group that keeps what the object held (line 74 missing).
FitGroupStart_keep(a) ==
    /\ pc \in Rest
    /\ out = NoOut
    /\ UNCHANGED group_results
    /\ dropped' = 0
    /\ sink' = <<>>
    /\ f_obj' = IF a.save_dat THEN "open" ELSE "none"
    /\ args' = a
    /\ i' = 1
    /\ pc' = "fg_loop"
    /\ calls' = <<>>
    /\ raised' = "none"
    /\ out' = NoOut
    /\ file' = <<>>
    /\ pos' = 0
    /\ UNCHANGED <<freqs, freq_range, psd, fit_res, funcVars>>

\* Lines 73-78: the results are reset and, when saving, the file is opened
\* for writing, empty.
FitGroupStart(a) ==
    /\ pc \in Rest
    /\ out = NoOut
    /\ group_results' = <<>>
    /\ dropped' = Len(group_results)
    /\ sink' = <<>>
    /\ f_obj' = IF a.save_dat THEN "open" ELSE "none"
    /\ args' = a
    /\ i' = 1
    /\ pc' = "fg_loop"
    /\ calls' = <<>>
    /\ raised' = "none"
    /\ out' = NoOut
    /\ file' = <<>>
    /\ pos' = 0
    /\ UNCHANGED <<freqs, freq_range, psd, fit_res, funcVars>>

\* A loop that catches the error of a fit and goes on to the next spectrum.
FitStep_swallow ==
    /\ pc = "fg_loop"
    /\ i <= Len(args.psds)
    /\ calls' = Append(calls, "fit")
    /\ IF Fits(args.psds[i])
         THEN /\ FitConverges(args.psds[i])
              /\ pc' = "fg_fitted"
              /\ UNCHANGED <<raised, i>>
         ELSE /\ FitFails(args.psds[i])
              /\ pc' = "fg_loop"
              /\ i' = i + 1
              /\ UNCHANGED raised
    /\ UNCHANGED <<group_results, sink, f_obj, args, file, pos, out, dropped, funcVars>>

\* A loop that clears the fitter's data before it lets the error of a fit out.
FitStep_cleanup ==
    /\ pc = "fg_loop"
    /\ i <= Len(args.psds)
    /\ IF Fits(args.psds[i])
         THEN /\ FitConverges(args.psds[i])
              /\ calls' = Append(calls, "fit")
              /\ pc' = "fg_fitted"
              /\ UNCHANGED raised
         ELSE /\ reset_dat_keep_freqs
              /\ calls' = calls \o <<"fit", "_reset_dat">>
              /\ pc' = "fg_raised"
              /\ raised' = "FitError"
    /\ UNCHANGED <<group_results, sink, f_obj, args, i, file, pos, out, dropped, funcVars>>

\* Line 83: self.fit(freqs, psd, freq_range) on the i-th spectrum.  Nothing
\* catches an error of the fit: it leaves fit_group.
FitStep ==
    /\ pc = "fg_loop"
    /\ i <= Len(args.psds)
    /\ calls' = Append(calls, "fit")
    /\ IF Fits(args.psds[i])
         THEN /\ FitConverges(args.psds[i])
              /\ pc' = "fg_fitted"
              /\ UNCHANGED raised
         ELSE /\ FitFails(args.psds[i])
              /\ pc' = "fg_raised"
              /\ raised' = "FitError"
    /\ UNCHANGED <<group_results, sink, f_obj, args, i, file, pos, out, dropped, funcVars>>

\* Line 84: self.group_results.append(self.get_results()).
AppendStep ==
    /\ pc = "fg_fitted"
    /\ group_results' = Append(group_results, get_results)
    /\ calls' = Append(calls, "get_results")
    /\ pc' = "fg_appended"
    /\ UNCHANGED <<freqs, freq_range, psd, fit_res, sink, f_obj, args, i, file, pos,
                   raised, out, dropped, funcVars>>

\* A loop that writes nothing while it runs.
SaveStep_skip ==
    /\ pc = "fg_appended"
    /\ UNCHANGED <<sink, calls>>
    /\ i' = i + 1
    /\ pc' = "fg_loop"
    /\ UNCHANGED <<group_results, freqs, freq_range, psd, fit_res, f_obj, args, file, pos,
                   raised, out, dropped, funcVars>>

\* Lines 85-86: when saving, self.save(f_obj, save_results=True) writes the
\* result of the spectrum just fitted as one more line; then the loop goes to
\* the next spectrum.
SaveStep ==
    /\ pc = "fg_appended"
    /\ IF args.save_dat
         THEN /\ sink' = Append(sink, Serialize(get_results))
              /\ calls' = Append(calls, "save")
         ELSE UNCHANGED <<sink, calls>>
    /\ i' = i + 1
    /\ pc' = "fg_loop"
    /\ UNCHANGED <<group_results, freqs, freq_range, psd, fit_res, f_obj, args, file, pos,
                   raised, out, dropped, funcVars>>

\* An end of fit_group that clears the results with the data.
FitGroupFinish_wipe ==
    /\ pc = "fg_loop"
    /\ i > Len(args.psds)
    /\ psd' = NoPsd
    /\ fit_res' = <<>>
    /\ freqs' = <<>>
    /\ freq_range' = <<>>
    /\ group_results' = <<>>
    /\ calls' = Append(calls, "_reset_dat")
    /\ f_obj' = IF args.save_dat THEN "closed" ELSE f_obj
    /\ pc' = "fg_done"
    /\ UNCHANGED <<sink, args, i, file, pos, raised, out, dropped, funcVars>>

\* Lines 88-94: after the last spectrum, self._reset_dat(False) and, when
\* saving, the file is closed.
FitGroupFinish ==
    /\ pc = "fg_loop"
    /\ i > Len(args.psds)
    /\ reset_dat_keep_freqs
    /\ calls' = Append(calls, "_reset_dat")
    /\ f_obj' = IF args.save_dat THEN "closed" ELSE f_obj
    /\ pc' = "fg_done"
    /\ UNCHANGED <<group_results, sink, args, i, file, pos, raised, out, dropped, funcVars>>

-----------------------------------------------------------------------------
(* FOOOFGroup.load_group_results *)

\* Lines 216-220: the results are reset and the file is opened for reading.
LoadStart(f) ==
    /\ pc \in Rest
    /\ out = NoOut
    /\ group_results' = <<>>
    /\ dropped' = Len(group_results)
    /\ sink' = <<>>
    /\ f_obj' = "none"
    /\ file' = f
    /\ pos' = 1
    /\ pc' = "ld_loop"
    /\ calls' = <<>>
    /\ raised' = "none"
    /\ out' = NoOut
    /\ args' = NoArgs
    /\ i' = 0
    /\ UNCHANGED <<freqs, freq_range, psd, fit_res, funcVars>>

\* A loop that passes over a line it cannot parse and reads on, and stops
\* only at the end of the file.
LoadRead_skip ==
    /\ pc = "ld_loop"
    /\ calls' = Append(calls, "load")
    /\ IF pos <= Len(file) /\ Parses(file[pos])
         THEN /\ fit_res' = <<Parse(file[pos])>>
              /\ pos' = pos + 1
              /\ pc' = "ld_loaded"
         ELSE /\ UNCHANGED fit_res
              /\ pos' = Min(pos + 1, Len(file) + 1)
              /\ pc' = IF pos <= Len(file) THEN "ld_loop" ELSE "ld_break"
    /\ UNCHANGED <<group_results, freqs, freq_range, psd, sink, f_obj, args, i, file,
                   raised, out, dropped, funcVars>>

\* A loop that reads again after a read that failed.
LoadRead_spin ==
    /\ pc = "ld_loop"
    /\ IF pos <= Len(file) /\ Parses(file[pos])
         THEN /\ fit_res' = <<Parse(file[pos])>>
              /\ pos' = pos + 1
              /\ pc' = "ld_loaded"
              /\ calls' = Append(calls, "load")
         ELSE UNCHANGED <<fit_res, pos, pc, calls>>
    /\ UNCHANGED <<group_results, freqs, freq_range, psd, sink, f_obj, args, i, file,
                   raised, out, dropped, funcVars>>

\* Lines 225-226 and 230-231: self.load(f_obj) reads the next line and parses
\* it.  A line that is no valid JSON, and the empty string that readline gives
\* at the end of the file, raise JSONDecodeError, which ends the loop.
LoadRead ==
    /\ pc = "ld_loop"
    /\ calls' = Append(calls, "load")
    /\ IF pos <= Len(file) /\ Parses(file[pos])
         THEN /\ fit_res' = <<Parse(file[pos])>>
              /\ pos' = pos + 1
              /\ pc' = "ld_loaded"
         ELSE /\ UNCHANGED fit_res
              /\ pos' = Min(pos + 1, Len(file) + 1)
              /\ pc' = "ld_break"
    /\ UNCHANGED <<group_results, freqs, freq_range, psd, sink, f_obj, args, i, file,
                   raised, out, dropped, funcVars>>

\* Line 227: self.group_results.append(self.get_results()).
LoadAppend ==
    /\ pc = "ld_loaded"
    /\ group_results' = Append(group_results, get_results)
    /\ calls' = Append(calls, "get_results")
    /\ pc' = "ld_loop"
    /\ UNCHANGED <<freqs, freq_range, psd, fit_res, sink, f_obj, args, i, file, pos,
                   raised, out, dropped, funcVars>>

\* Lines 233-234: the file is closed and self._reset_dat(False) is called.
LoadFinish ==
    /\ pc = "ld_break"
    /\ reset_dat_keep_freqs
    /\ calls' = Append(calls, "_reset_dat")
    /\ pc' = "ld_done"
    /\ UNCHANGED <<group_results, sink, f_obj, args, i, file, pos, raised, out, dropped, funcVars>>

-----------------------------------------------------------------------------
(* FOOOFGroup.get_all_data *)

\* getattr(dat, name)
Field(dat, name) ==
    CASE name = "background_params" -> dat.background_params
      [] name = "oscillations_params" -> dat.oscillations_params
      [] name = "r2" -> dat.r2
      [] name = "error" -> dat.error

\* Whether the field is an array (background and peak parameters) or a number.
IsNdarray(name) == name \in {"background_params", "oscillations_params"}

\* arr.ndim: the background parameters are 1-d, the peak parameters 2-d.
Ndim(name) == IF name = "background_params" THEN 1 ELSE 2

\* Number of columns of the concatenated array.
Width(name) == IF name = "background_params" THEN 2 ELSE 3

RECURSIVE concatenate(_)
\* np.concatenate(arrs, 0): the rows of the first array, then those of the next.
concatenate(arrs) ==
    IF arrs = <<>> THEN <<>> ELSE arrs[1] \o concatenate(Tail(arrs))

\* Lines 119-130.  np.array() of the fields is indexed at 0 whatever its
\* length; arrays of equal shape stack and arrays of unequal length are kept
\* as an array of arrays, and both iterate over the per-spectrum arrays.
get_all_data(name, ind) ==
    LET vals == [k \in 1 .. Len(group_results) |-> Field(group_results[k], name)]
        flat == IF IsNdarray(name)
                  THEN concatenate([k \in 1 .. Len(vals) |->
                           IF Ndim(name) = 1 THEN <<vals[k]>> ELSE vals[k]])
                  ELSE vals
    IN  IF Len(vals) = 0
          THEN [name |-> name, ind |-> ind, exc |-> "IndexError", val |-> <<>>]
        ELSE IF ind = NoInd
          THEN [name |-> name, ind |-> ind, exc |-> "none", val |-> flat]
        ELSE IF ~IsNdarray(name) \/ ind >= Width(name)
          THEN [name |-> name, ind |-> ind, exc |-> "IndexError", val |-> <<>>]
        ELSE [name |-> name, ind |-> ind, exc |-> "none",
              val |-> [k \in 1 .. Len(flat) |-> flat[k][ind + 1]]]

\* A call of get_all_data while no other method runs.
GetAllData(name, ind) ==
    /\ pc \in Rest
    /\ out = NoOut
    /\ out' = get_all_data(name, ind)
    /\ UNCHANGED <<group_results, freqs, freq_range, psd, fit_res, sink, f_obj, pc, args,
                   i, file, pos, calls, raised, dropped, funcVars>>

\* Line 130: the caller takes what get_all_data returned (or raised) before it
\* calls another method.
TakeOut ==
    /\ pc \in Rest
    /\ out # NoOut
    /\ out' = NoOut
    /\ UNCHANGED <<group_results, freqs, freq_range, psd, fit_res, sink, f_obj, pc, args,
                   i, file, pos, calls, raised, dropped, funcVars>>

-----------------------------------------------------------------------------
(* The group fitter *)

Next ==
    \/ \E a \in ArgSet : FitGroupStart(a)
    \/ FitStep
    \/ AppendStep
    \/ SaveStep
    \/ FitGroupFinish
    \/ \E f \in Files : LoadStart(FileLines(f))
    \/ LoadRead
    \/ LoadAppend
    \/ LoadFinish
    \/ \E q \in Queries : GetAllData(q[1], q[2])
    \/ TakeOut

Spec == Init /\ [][Next]_vars

\* The methods are synchronous: a method that has started runs on.
FairSpec ==
    /\ Init
    /\ [][Next]_vars
    /\ WF_vars(LoadRead)
    /\ WF_vars(LoadAppend)
    /\ WF_vars(LoadFinish)

-----------------------------------------------------------------------------
(* funcs.loglorentzian_function *)

\* A floating-point value is modelled by its class: "fin" (finite), "inf",
\* "-inf" or "nan".

RECURSIVE power(_, _)
\* x**c for a whole exponent c >= 0 (0**0 is 1).
power(x, c) == IF c = 0 THEN 1 ELSE x * power(x, c - 1)

\* A log10 that gives a finite value for every argument.
np_log10_clamped(v) == "fin"

\* np.log10 of a finite value: -inf at 0 and nan below 0, each with a
\* RuntimeWarning and no exception.
np_log10(v) ==
    IF v > 0 THEN "fin"
    ELSE IF v = 0 THEN "-inf"
    ELSE "nan"

\* Floating-point subtraction p - q.
np_subtract(p, q) ==
    IF p = "nan" \/ q = "nan" THEN "nan"
    ELSE IF q = "fin" THEN p
    ELSE IF p = "fin" THEN (IF q = "inf" THEN "-inf" ELSE "inf")
    ELSE IF p = q THEN "nan"
    ELSE p

\* Lines 110-114: y = np.log10(a) - np.log10(b + x**c), element by element.
loglorentzian_function(x, a, b, c) ==
    [applied |-> TRUE,
     raised |-> "none",
     y |-> [k \in 1 .. Len(x) |->
              np_subtract(np_log10(a), np_log10(b + power(x[k], c)))]]

FuncInputs ==
    [x : SeqsUpTo((0 - XRange) .. XRange, MaxX),
     a : (0 - PRange) .. PRange,
     b : (0 - PRange) .. PRange,
     c : 0 .. CMax]

FuncInit ==
    /\ GroupInit
    /\ f_in \in FuncInputs
    /\ f_out = NoFuncOut

\* The function is applied to its arguments.
FuncApply ==
    /\ ~f_out.applied
    /\ f_out' = loglorentzian_function(f_in.x, f_in.a, f_in.b, f_in.c)
    /\ UNCHANGED <<f_in, groupVars>>

FuncNext == FuncApply

FuncSpec == FuncInit /\ [][FuncNext]_vars

\* The argument of the logarithm at the k-th point.
LogArg(k) == f_in.b + power(f_in.x[k], f_in.c)

-----------------------------------------------------------------------------
(* Properties *)

\* The results of the first n spectra of the batch, in input order.
BatchResults(n) == [j \in 1 .. n |-> FitResult(args.psds[j])]

\* The lines that saving the first n spectra of the batch writes.
BatchRecords(n) == [j \in 1 .. n |-> Serialize(FitResult(args.psds[j]))]

\* The number of lines of f before its first line that does not parse.
GoodPrefixLen(f) ==
    CHOOSE k \in 0 .. Len(f) :
        /\ \A j \in 1 .. k : Parses(f[j])
        /\ k = Len(f) \/ ~Parses(f[k + 1])

HasBadLine(f) == \E j \in 1 .. Len(f) : ~Parses(f[j])

\* How often the running / last method has called base-class method m.
CountCalls(m) == Cardinality({k \in 1 .. Len(calls) : calls[k] = m})

\* All peaks held, spectrum after spectrum.
AllPeaks ==
    concatenate([k \in 1 .. Len(group_results) |-> group_results[k].oscillations_params])

\* C1: when fit_group has completed, group_results is exactly the results of
\* the spectra of that call, one per spectrum and in their order; nothing the
\* object held before the call is left in it.
C1_ResultsOfLastCall ==
    pc = "fg_done" =>
        /\ Len(group_results) = Len(args.psds)
        /\ group_results = BatchResults(Len(args.psds))

\* A fit_group of one spectrum has completed on an object that held two results.
C1_Witness ==
    /\ pc = "fg_done"
    /\ dropped = 2
    /\ Len(args.psds) = 1
    /\ Len(group_results) = 1

\* C2: after fit_group has completed on N spectra, get_all_data('error')
\* returns N values, the j-th being the error of the fit of the j-th spectrum.
C2_ErrorsAligned ==
    (pc = "fg_done" /\ out.name = "error") =>
        /\ out.exc = "none"
        /\ Len(out.val) = Len(args.psds)
        /\ \A j \in 1 .. Len(args.psds) : out.val[j] = FitResult(args.psds[j]).error

\* C3: fit_group never goes past a spectrum whose fit fails: the error leaves
\* fit_group at that spectrum, with no result appended for it, no fit of a
\* later spectrum and no line written for it or a later one.
C3_HaltsOnFailure ==
    /\ pc \in {"fg_loop", "fg_fitted", "fg_appended", "fg_done"} =>
          /\ raised = "none"
          /\ \A j \in 1 .. (i - 1) : Fits(args.psds[j])
    /\ pc = "fg_raised" =>
          /\ raised = "FitError"
          /\ ~Fits(args.psds[i])
          /\ \A j \in 1 .. (i - 1) : Fits(args.psds[j])
          /\ Len(group_results) = i - 1
          /\ CountCalls("fit") = i
          /\ CountCalls("get_results") = i - 1
          /\ sink = IF args.save_dat THEN BatchRecords(i - 1) ELSE <<>>

\* The fit of the first of two spectra has failed while saving; the second fits.
C3_Witness ==
    /\ pc = "fg_raised"
    /\ args.save_dat
    /\ i = 1
    /\ Len(args.psds) = 2
    /\ Fits(args.psds[2])

C5_LoadsCompletePrefix ==
    (pc = "ld_done" /\ HasBadLine(file)) =>
        /\ raised = "none"
        /\ group_results = [j \in 1 .. GoodPrefixLen(file) |-> Parse(file[j])]

\* A file of a record, a broken line and a record has been loaded into an
\* object that held two results.
C5_Witness ==
    /\ pc = "ld_done"
    /\ dropped = 2
    /\ Len(file) = 3
    /\ Parses(file[1]) /\ ~Parses(file[2]) /\ Parses(file[3])
    /\ Len(group_results) = 1

\* C6 as stated: when fit_group has completed, the fitter holds the frequency
\* axis and range of the batch, and the data and fit outputs of the last
\* spectrum are cleared.
C6_FreqsOfBatchHeld ==
    pc = "fg_done" =>
        /\ freqs = TrimFreqs(args.freqs, args.freq_range)
        /\ freq_range = HeldRange(args.freqs, args.freq_range)
        /\ psd = NoPsd
        /\ fit_res = <<>>

\* C6, amended: when fit_group has completed, the data and fit outputs of the
\* last spectrum are cleared and, if the batch had a spectrum, the fitter holds
\* the frequency axis and range of the batch; the step that clears changes
\* neither group_results nor the frequency information.
C6_FreqsKeptDataCleared ==
    /\ [](pc = "fg_done" =>
            /\ psd = NoPsd
            /\ fit_res = <<>>
            /\ Len(args.psds) >= 1 =>
                  /\ freqs = TrimFreqs(args.freqs, args.freq_range)
                  /\ freq_range = HeldRange(args.freqs, args.freq_range))
    /\ [][(pc = "fg_loop" /\ pc' = "fg_done") =>
            /\ group_results' = group_results
            /\ freqs' = freqs
            /\ freq_range' = freq_range]_vars

\* fit_group has completed on two spectra fitted over the range 2 - 4.
C6_Witness ==
    /\ pc = "fg_done"
    /\ Len(args.psds) = 2
    /\ freqs = <<2, 4>>
    /\ freq_range = <<2, 4>>
    /\ psd = NoPsd

\* C7: for the results held after a fit_group or a load, get_all_data on the
\* peak parameters returns all peaks as rows, spectrum after spectrum, and with
\* a column index that column of every row.
C7_PeaksFlattened ==
    (pc \in {"fg_done", "ld_done"} /\ out.name = "oscillations_params") =>
        /\ out.exc = "none"
        /\ Len(out.val) = Len(AllPeaks)
        /\ out.val = IF out.ind = NoInd THEN AllPeaks
                     ELSE [k \in 1 .. Len(AllPeaks) |-> AllPeaks[k][out.ind + 1]]

C9_PartialResultsOnFailure ==
    pc = "fg_raised" =>
        /\ ~Fits(args.psds[i])
        /\ group_results = BatchResults(i - 1)
        /\ CountCalls("_reset_dat") = 0
        /\ i > 1 => psd \in {args.psds[i], args.psds[i - 1]}

\* The fit of the second spectrum has failed on an object that held results
\* before the call.
C9_Witness ==
    /\ pc = "fg_raised"
    /\ i = 2
    /\ dropped > 0
    /\ Len(group_results) = 1
    /\ psd # NoPsd

\* C10: the read loop of load_group_results ends: it never appends more than
\* the lines before the first that does not parse, it stops with the read that
\* fails (at the end of the file when every line parses) having appended
\* nothing for that read, and a load that has started completes.
C10_LoadLoopTerminates ==
    /\ [](pc \in {"ld_loop", "ld_loaded", "ld_break", "ld_done"} =>
            /\ Len(group_results) <= GoodPrefixLen(file)
            /\ CountCalls("load") <= GoodPrefixLen(file) + 1)
    /\ [](pc \in {"ld_break", "ld_done"} =>
            /\ Len(group_results) = GoodPrefixLen(file)
            /\ CountCalls("load") = GoodPrefixLen(file) + 1
            /\ CountCalls("get_results") = GoodPrefixLen(file))
    /\ (pc = "ld_loop" ~> pc = "ld_done")

\* A file of two records and no broken line has been loaded.
C10_Witness ==
    /\ pc = "ld_done"
    /\ ~HasBadLine(file)
    /\ Len(file) = 2
    /\ Len(group_results) = 2

====
